---------------------------- MODULE Spec2Model ----------------------------
(***************************************************************************)
(* A model of two units of the provisioning toolkit:                      *)
(*   src/devstack/utils.py          (shared utility module)               *)
(*   src/anvil/components/keystone.py (identity-service component driver) *)
(*                                                                         *)
(* Each operation group has its own specification (Init/Next pair); the    *)
(* variables of the other groups stay at their idle values.                *)
(***************************************************************************)
EXTENDS Integers, Sequences, FiniteSets, TLC

(***************************************************************************)
(* Generic helpers                                                         *)
(***************************************************************************)
Range(s) == {s[i] : i \in 1..Len(s)}

SeqsUpTo(S, n) == UNION {[1..k -> S] : k \in 0..n}

Count(x, s) == Cardinality({i \in 1..Len(s) : s[i] = x})

IsPrefix(s, t) == Len(s) <= Len(t) /\ \A i \in 1..Len(s) : s[i] = t[i]

(***************************************************************************)
(* Bounds of the model                                                     *)
(***************************************************************************)
\* longest collection of component names handed to resolve_dependencies
MaxInput == 2
\* longest template string handed to param_replace
MaxText == 6
\* longest command batch handed to execute_template
MaxCmds == 2
\* most manifest files declared for one component
MaxFiles == 2
\* longest raw selection string, and most of them in one list
MaxRaw == 3
MaxEntries == 3
\* most post_start calls of one runtime process
MaxStarts == 2
\* most post_install runs of the installer
MaxInstalls == 2

(***************************************************************************)
(* State                                                                   *)
(***************************************************************************)
VARIABLES
    \* ---- resolve_dependencies (utils.py 59-76)
    COMPONENT_DEPENDENCIES, \* constants.COMPONENT_DEPENDENCIES: the fixed table
    rd_components,          \* the argument: a list of component names
    active_components,      \* the work list
    new_components,         \* the result set under construction
    rd_pc,                  \* "start" | "loop" | "done"
    rd_queued,              \* history: how often the loop appended each name
    \* ---- param_replace (utils.py 283-309)
    pr_text,                \* the argument text
    pr_replacements,        \* the argument replacements (a dict)
    pr_ignore_missing,      \* the argument ignore_missing
    pr_pc,                  \* "idle" | "pending" | "done"
    pr_result,              \* the outcome of the call, once done
    \* ---- execute_template (utils.py 79-108)
    et_cmds,                \* *cmds: the command descriptors
    et_kargs,               \* **kargs: 'params', 'ignore_missing' when passed
    et_params,              \* params_replacements, once popped
    et_ignore_missing,      \* ignore_missing, once popped
    et_pc,                  \* "idle" | "start" | "subst" | "run" | "returned" | "raised"
    et_i,                   \* the position of cmdinfo in cmds
    cmd_to_run,             \* the argument vector built for cmdinfo
    et_stdin,               \* the stdin blob built for cmdinfo
    cmd_results,            \* the list being returned
    et_calls,               \* history: the calls made to sh.execute, in order
    et_outcome,             \* the outcome of the call, once returned or raised
    \* ---- get_pkg_list (utils.py 249-276)
    pk_distro,              \* the argument distro
    pk_declared,            \* whether constants.PKG_MAP has the component
    pk_files,               \* what load_json gives for each declared file
    pk_pc,                  \* "idle" | "start" | "loop" | "done"
    pk_n,                   \* how many of the files have been merged
    all_pkgs,               \* the accumulator, returned at the end
    \* ---- parse_components (utils.py 111-144)
    pc_assume_all,          \* the argument assume_all
    pc_pc,                  \* "idle" | "loop" | "done"
    pc_n,                   \* how many entries of components were read
    pc_warned,              \* how many warnings LOG.warn was given
    pc_accepted,            \* history: the registry names the entries read select
    adjusted_components,    \* the mapping being built and returned
    \* ---- KeystoneRuntime (keystone.py 182-206)
    marker,                 \* the file at self.init_fn (keystone.inited.yaml)
    rt_has_init_what,       \* whether the base class gives self.init_what
    rt_ctor,                \* how __init__ ended: "none" | "constructed" | "NameError"
    rt_pc,                  \* where each process is in post_start
    rt_starts,              \* how many post_start calls each process began
    rt_entry,               \* what the check of line 190 found, and who was past it
    rt_prev,                \* how the previous call of the process ended
    rt_trace,               \* the boundary calls of the current call, in order
    rt_cfg,                 \* the local dict cfg: the bundles gathered so far
    rt_wrote,               \* whether the current call wrote the marker
    rt_failed,              \* whether a boundary call of the current call failed
    rt_exc,                 \* the exception that left the current call
    \* ---- KeystoneInstaller (keystone.py 75-119, 174-179)
    db,                     \* the database 'keystone' on the server
    in_bin_dir,             \* self.bin_dir
    in_base,                \* what the base class's config_params returns
    in_pc,                  \* the statement post_install is at
    in_i,                   \* its index among the statements
    in_runs,                \* how many post_install runs began
    in_log,                 \* the boundary calls of the current run, in order
    in_params               \* the mapping config_params returned

rdVars == <<COMPONENT_DEPENDENCIES, rd_components, active_components,
            new_components, rd_pc, rd_queued>>

prVars == <<pr_text, pr_replacements, pr_ignore_missing, pr_pc, pr_result>>

etVars == <<et_cmds, et_kargs, et_params, et_ignore_missing, et_pc, et_i, cmd_to_run,
            et_stdin, cmd_results, et_calls, et_outcome>>

pkVars == <<pk_distro, pk_declared, pk_files, pk_pc, pk_n, all_pkgs>>

pcVars == <<pc_assume_all, pc_pc, pc_n, pc_warned, pc_accepted,
            adjusted_components>>

rtVars == <<marker, rt_has_init_what, rt_ctor, rt_pc, rt_starts,
            rt_entry, rt_prev, rt_trace, rt_cfg, rt_wrote, rt_failed, rt_exc>>

inVars == <<db, in_bin_dir, in_base, in_pc, in_i, in_runs, in_log, in_params>>

vars == <<rdVars, prVars, etVars, pkVars, pcVars, rtVars, inVars>>

(***************************************************************************)
(* The idle values a specification gives the variables of the operations   *)
(* it does not run.                                                        *)
(***************************************************************************)
IdleResolve ==
    /\ COMPONENT_DEPENDENCIES = <<>>
    /\ rd_components = <<>>
    /\ active_components = <<>>
    /\ new_components = {}
    /\ rd_pc = "idle"
    /\ rd_queued = <<>>

IdleParam ==
    /\ pr_text = <<>>
    /\ pr_replacements = <<>>
    /\ pr_ignore_missing = FALSE
    /\ pr_pc = "idle"
    /\ pr_result = <<>>

IdlePkg ==
    /\ pk_distro = ""
    /\ pk_declared = FALSE
    /\ pk_files = <<>>
    /\ pk_pc = "idle"
    /\ pk_n = 0
    /\ all_pkgs = <<>>

IdleParse ==
    /\ pc_assume_all = FALSE
    /\ pc_pc = "idle"
    /\ pc_n = 0
    /\ pc_warned = 0
    /\ pc_accepted = {}
    /\ adjusted_components = <<>>

IdleRuntime ==
    /\ marker = <<>>
    /\ rt_has_init_what = FALSE
    /\ rt_ctor = <<>>
    /\ rt_pc = <<>>
    /\ rt_starts = <<>>
    /\ rt_entry = <<>>
    /\ rt_prev = <<>>
    /\ rt_trace = <<>>
    /\ rt_cfg = <<>>
    /\ rt_wrote = <<>>
    /\ rt_failed = <<>>
    /\ rt_exc = <<>>

IdleInstall ==
    /\ db = <<>>
    /\ in_bin_dir = ""
    /\ in_base = <<>>
    /\ in_pc = "idle"
    /\ in_i = 0
    /\ in_runs = 0
    /\ in_log = <<>>
    /\ in_params = <<>>

IdleExec ==
    /\ et_cmds = <<>>
    /\ et_kargs = <<>>
    /\ et_params = <<>>
    /\ et_ignore_missing = FALSE
    /\ et_pc = "idle"
    /\ et_i = 0
    /\ cmd_to_run = <<>>
    /\ et_stdin = <<>>
    /\ cmd_results = <<>>
    /\ et_calls = <<>>
    /\ et_outcome = <<>>

(***************************************************************************)
(* resolve_dependencies / get_dependencies                                 *)
(***************************************************************************)
\* The component names, in the order Python's sorted() gives them.
SortedNames == <<"db", "keystone", "nova">>

Components == Range(SortedNames)

\* sorted(deps) for a list of distinct names: the names of the set in
\* ascending order (the order of a table row does not survive sorted()).
RECURSIVE SortedFrom(_, _)
SortedFrom(deps, i) ==
    IF i > Len(SortedNames) THEN <<>>
    ELSE (IF SortedNames[i] \in deps THEN <<SortedNames[i]>> ELSE <<>>)
         \o SortedFrom(deps, i + 1)

sorted(deps) == SortedFrom(deps, 1)

\* get_dependencies with only the first declared dependency kept
get_dependencies_first(component) ==
    LET deps == IF component \in DOMAIN COMPONENT_DEPENDENCIES
                THEN COMPONENT_DEPENDENCIES[component] ELSE {}
        s == sorted(deps)
    IN  IF s = <<>> THEN s ELSE <<s[1]>>

\* def get_dependencies(component): .get(component, list()) then sorted()
get_dependencies(component) ==
    LET deps == IF component \in DOMAIN COMPONENT_DEPENDENCIES
                THEN COMPONENT_DEPENDENCIES[component] ELSE {}
    IN  sorted(deps)

\* the membership test of line 72 without its "c in active_components" half
AlreadyKnown_noActive(c, new, active) == c \in new

\* line 72: c in new_components or c in active_components
AlreadyKnown(c, new, active) == c \in new \/ c \in Range(active)

\* lines 71-75: the for loop over component_deps
RECURSIVE QueueDeps(_, _, _, _)
QueueDeps(component_deps, i, new, active) ==
    IF i > Len(component_deps) THEN active
    ELSE LET c == component_deps[i]
         IN  IF AlreadyKnown(c, new, active)
             THEN QueueDeps(component_deps, i + 1, new, active)
             ELSE QueueDeps(component_deps, i + 1, new, Append(active, c))

InitResolve ==
    \* a table may lack rows (a dict without that key) and may hold cycles
    /\ COMPONENT_DEPENDENCIES \in
           UNION {[D -> SUBSET Components] : D \in SUBSET Components}
    /\ rd_components \in SeqsUpTo(Components, MaxInput)
    /\ active_components = <<>>
    /\ new_components = {}
    /\ rd_pc = "start"
    /\ rd_queued = [c \in Components |-> 0]
    /\ IdleParam /\ IdleExec /\ IdlePkg /\ IdleParse /\ IdleRuntime /\ IdleInstall

\* lines 65-66
ResolveBegin ==
    /\ rd_pc = "start"
    /\ active_components' = rd_components
    /\ new_components' = {}
    /\ rd_pc' = "loop"
    /\ UNCHANGED <<COMPONENT_DEPENDENCIES, rd_components, rd_queued>>
    /\ UNCHANGED <<prVars, etVars, pkVars, pcVars, rtVars, inVars>>

\* lines 67-75: one iteration of the while loop
ResolveIterate ==
    /\ rd_pc = "loop"
    /\ Len(active_components) > 0
    /\ LET curr_comp == active_components[Len(active_components)]
           popped == SubSeq(active_components, 1, Len(active_components) - 1)
           component_deps == get_dependencies(curr_comp)
           added == new_components \cup {curr_comp}
           queued == QueueDeps(component_deps, 1, added, popped)
       IN  /\ new_components' = added
           /\ active_components' = queued
           /\ rd_queued' = [c \in Components |->
                              rd_queued[c] + Count(c, queued) - Count(c, popped)]
    /\ UNCHANGED <<COMPONENT_DEPENDENCIES, rd_components, rd_pc>>
    /\ UNCHANGED <<prVars, etVars, pkVars, pcVars, rtVars, inVars>>

\* lines 67, 76: the loop condition fails, the set is returned
ResolveReturn ==
    /\ rd_pc = "loop"
    /\ Len(active_components) = 0
    /\ rd_pc' = "done"
    /\ UNCHANGED <<COMPONENT_DEPENDENCIES, rd_components, active_components,
                   new_components, rd_queued>>
    /\ UNCHANGED <<prVars, etVars, pkVars, pcVars, rtVars, inVars>>

NextResolve == ResolveBegin \/ ResolveIterate \/ ResolveReturn

\* The loop is straight-line sequential code: a step that can run does run.
SpecResolve == InitResolve /\ [][NextResolve]_vars /\ WF_vars(NextResolve)

\* C1: when resolve_dependencies has returned, the returned set holds every
\* name of the input and, for each member, every dependency the table lists.
DependencyClosure ==
    rd_pc = "done" =>
        /\ Range(rd_components) \subseteq new_components
        /\ \A c \in new_components :
              c \in DOMAIN COMPONENT_DEPENDENCIES =>
                  COMPONENT_DEPENDENCIES[c] \subseteq new_components

\* C1 witness: a returned closure that grew beyond the input over a table
\* with a missing row and a cycle.
DependencyClosureWitness ==
    /\ rd_pc = "done"
    /\ rd_components = <<"nova">>
    /\ DOMAIN COMPONENT_DEPENDENCIES = {"nova", "keystone"}
    /\ COMPONENT_DEPENDENCIES["nova"] = {"db", "keystone"}
    /\ COMPONENT_DEPENDENCIES["keystone"] = {"nova"}
    /\ new_components = Components

\* C10: the work list empties (the call returns), and the loop never appends a
\* name twice, nor a name that the input already put on the work list.
NeverRequeued ==
    \A c \in Components :
        /\ rd_queued[c] <= 1
        /\ c \in Range(rd_components) /\ rd_pc # "start" => rd_queued[c] = 0

ResolveTerminates ==
    /\ []NeverRequeued
    /\ <>(rd_pc = "done" /\ active_components = <<>>)

\* C10 witness: a returned call over a self-dependency, a three-cycle and an
\* input naming one component twice.
ResolveTerminatesWitness ==
    /\ rd_pc = "done"
    /\ rd_components = <<"db", "db">>
    /\ DOMAIN COMPONENT_DEPENDENCIES = Components
    /\ COMPONENT_DEPENDENCIES["db"] = {"db", "keystone"}
    /\ COMPONENT_DEPENDENCIES["keystone"] = {"nova"}
    /\ COMPONENT_DEPENDENCIES["nova"] = {"db"}
    /\ rd_queued["keystone"] = 1

(***************************************************************************)
(* param_replace                                                           *)
(***************************************************************************)
\* Strings are sequences of one-character strings.  The alphabet: the
\* placeholder delimiter, two characters of the class [\w\d], one outside it.
Chars == {"%", "A", "B", "-"}

IsWordChar(ch) == ch \in {"A", "B"}

\* Python's None, kept apart from every string
PyNone == <<"<None>">>

\* The outcome of a call: a returned value, or a raised exception with the
\* text its message names.
Returned(v) == [raised |-> FALSE, exc |-> "", named |-> <<>>, value |-> v]

Raised(e, what) == [raised |-> TRUE, exc |-> e, named |-> what, value |-> PyNone]

\* The number of [\w\d] characters of text from position i on.
RECURSIVE WordRun(_, _)
WordRun(text, i) ==
    IF i <= Len(text) /\ IsWordChar(text[i]) THEN 1 + WordRun(text, i + 1) ELSE 0

\* PARAM_SUB_REGEX = %([\w\d]+?)% tried at position i: the position of the
\* closing delimiter, or 0 when the pattern does not match there.
MatchEnd(text, i) ==
    LET k == WordRun(text, i + 1)
    IN  IF text[i] = "%" /\ k >= 1 /\ i + 1 + k <= Len(text) /\ text[i + 1 + k] = "%"
        THEN i + 1 + k ELSE 0

\* replacements.get(name)
DictGet(replacements, name) ==
    IF name \in DOMAIN replacements THEN replacements[name] ELSE PyNone

\* lines 296-307 with the test of line 302 dropped: a missing value is
\* stringified like any other
replacer_nocheck(text, i, e, replacements, ignore_missing) ==
    LET org == SubSeq(text, i, e)
        name == SubSeq(text, i + 1, e - 1)
        v == DictGet(replacements, name)
    IN  IF v = PyNone /\ ignore_missing THEN Returned(org)
        ELSE IF v = PyNone THEN Returned(<<"N", "o", "n", "e">>)
        ELSE Returned(v)

\* lines 296-307: the callback run on the match text[i..e]
replacer(text, i, e, replacements, ignore_missing) ==
    LET org == SubSeq(text, i, e)
        name == SubSeq(text, i + 1, e - 1)
        v == DictGet(replacements, name)
    IN  IF v = PyNone /\ ignore_missing THEN Returned(org)
        ELSE IF v = PyNone /\ ~ignore_missing
             THEN Raised("NoReplacementException", org)
        ELSE Returned(v)

\* line 309: PARAM_SUB_REGEX.sub(replacer, text), scanning from position i:
\* leftmost matches, not overlapping, replaced text not scanned again.
RECURSIVE RegexSub(_, _, _, _)
RegexSub(text, i, replacements, ignore_missing) ==
    IF i > Len(text) THEN Returned(<<>>)
    ELSE LET e == MatchEnd(text, i)
         IN  IF e = 0
             THEN LET rest == RegexSub(text, i + 1, replacements, ignore_missing)
                  IN  IF rest.raised THEN rest
                      ELSE Returned(<<text[i]>> \o rest.value)
             ELSE LET r == replacer(text, i, e, replacements, ignore_missing)
                  IN  IF r.raised THEN r
                      ELSE LET rest == RegexSub(text, e + 1, replacements,
                                                ignore_missing)
                           IN  IF rest.raised THEN rest
                               ELSE Returned(r.value \o rest.value)

\* def param_replace(text, replacements, ignore_missing=False)
param_replace(text, replacements, ignore_missing) ==
    IF DOMAIN replacements = {} THEN Returned(text)
    ELSE IF Len(text) = 0 THEN Returned(text)
    ELSE RegexSub(text, 1, replacements, ignore_missing)

\* the replacement names and values the inputs are drawn from
ParamNames == {<<"A">>, <<"B">>}

ParamValues == {PyNone, <<"x">>}

ReplacementMaps == UNION {[D -> ParamValues] : D \in SUBSET ParamNames}

InitParam ==
    /\ pr_text \in SeqsUpTo(Chars, MaxText)
    /\ pr_replacements \in ReplacementMaps
    /\ pr_ignore_missing \in BOOLEAN
    /\ pr_pc = "pending"
    /\ pr_result = <<>>
    /\ IdleResolve /\ IdleExec /\ IdlePkg /\ IdleParse /\ IdleRuntime /\ IdleInstall

ParamReplaceCall ==
    /\ pr_pc = "pending"
    /\ pr_pc' = "done"
    /\ pr_result' = param_replace(pr_text, pr_replacements, pr_ignore_missing)
    /\ UNCHANGED <<pr_text, pr_replacements, pr_ignore_missing>>
    /\ UNCHANGED <<rdVars, etVars, pkVars, pcVars, rtVars, inVars>>

NextParam == ParamReplaceCall

SpecParam == InitParam /\ [][NextParam]_vars

\* The placeholders of a text: the matches a left-to-right scan finds, as
\* <<start, end>> pairs in scan order.
RECURSIVE Placeholders(_, _)
Placeholders(text, i) ==
    IF i > Len(text) THEN <<>>
    ELSE LET e == MatchEnd(text, i)
         IN  IF e = 0 THEN Placeholders(text, i + 1)
             ELSE <<(<<i, e>>)>> \o Placeholders(text, e + 1)

\* the placeholders of pr_text whose NAME is no key of the mapping
Unmapped ==
    LET ps == Placeholders(pr_text, 1)
    IN  {SubSeq(pr_text, ps[n][1], ps[n][2]) : n \in
            {m \in 1..Len(ps) :
                SubSeq(pr_text, ps[m][1] + 1, ps[m][2] - 1)
                    \notin DOMAIN pr_replacements}}

\* the first placeholder of pr_text whose lookup gives no value (no key, or
\* a key bound to None); <<>> when every placeholder has a value
FirstWithoutValue ==
    LET ps == Placeholders(pr_text, 1)
        missing == {m \in 1..Len(ps) :
                      DictGet(pr_replacements,
                              SubSeq(pr_text, ps[m][1] + 1, ps[m][2] - 1)) = PyNone}
    IN  IF missing = {} THEN <<>>
        ELSE LET m == CHOOSE x \in missing : \A y \in missing : x <= y
             IN  SubSeq(pr_text, ps[m][1], ps[m][2])

\* C6 as stated: for every mapping, with ignore_missing false a placeholder
\* without a replacement makes the call raise NoReplacementException naming
\* such a placeholder, and no string is returned.
MissingParamAlwaysRaises ==
    pr_pc = "done" /\ ~pr_ignore_missing /\ Unmapped # {} =>
        /\ pr_result.raised
        /\ pr_result.exc = "NoReplacementException"
        /\ pr_result.named \in Unmapped
        /\ pr_result.value = PyNone

\* C6 amended: the same for a non-empty mapping, the exception naming the
\* first placeholder, in scan order, whose lookup gives no value.
MissingParamRaises ==
    pr_pc = "done" /\ ~pr_ignore_missing
        /\ DOMAIN pr_replacements # {} /\ Unmapped # {} =>
        /\ pr_result.raised
        /\ pr_result.exc = "NoReplacementException"
        /\ pr_result.named = FirstWithoutValue
        /\ pr_result.value = PyNone

\* C6 witness: a call that replaced the first placeholder and raised on the
\* second, which the mapping has no key for.
MissingParamRaisesWitness ==
    /\ pr_text = <<"%", "A", "%", "%", "B", "%">>
    /\ pr_replacements = (<<"A">> :> <<"x">>)
    /\ ~pr_ignore_missing
    /\ pr_pc = "done"
    /\ pr_result.raised
    /\ pr_result.named = <<"%", "B", "%">>

(***************************************************************************)
(* execute_template                                                        *)
(***************************************************************************)
\* Python truth of "params_replacements and len(params_replacements)"
HasReplacements(params) == DOMAIN params # {}

\* os.linesep
LineSep == "\n"

\* def joinlinesep(*pieces): os.linesep.join(pieces)
RECURSIVE joinlinesep(_)
joinlinesep(pieces) ==
    IF Len(pieces) = 0 THEN <<>>
    ELSE IF Len(pieces) = 1 THEN pieces[1]
    ELSE pieces[1] \o <<LineSep>> \o joinlinesep(Tail(pieces))

\* lines 88-93 and 98-103: every piece of a template list goes through
\* param_replace when there are replacements, and is kept as it is otherwise
RECURSIVE SubstPieces(_, _, _)
SubstPieces(templ, params, ignore_missing) ==
    IF Len(templ) = 0 THEN Returned(<<>>)
    ELSE LET piece == IF HasReplacements(params)
                      THEN param_replace(templ[1], params, ignore_missing)
                      ELSE Returned(templ[1])
         IN  IF piece.raised THEN piece
             ELSE LET rest == SubstPieces(Tail(templ), params, ignore_missing)
                  IN  IF rest.raised THEN rest
                      ELSE Returned(<<piece.value>> \o rest.value)

\* lines 94-104: the stdin blob of a descriptor, None without stdin lines
SubstStdin(cmdinfo, params, ignore_missing) ==
    IF "stdin" \notin DOMAIN cmdinfo \/ Len(cmdinfo.stdin) = 0
    THEN Returned(PyNone)
    ELSE LET stdin_full == SubstPieces(cmdinfo.stdin, params, ignore_missing)
         IN  IF stdin_full.raised THEN stdin_full
             ELSE Returned(joinlinesep(stdin_full.value))

\* the templates and descriptors the inputs are drawn from
PlainPiece == <<"-">>

PieceA == <<"%", "A", "%">>

PieceB == <<"-", "%", "B", "%">>

CmdTemplates == {<<PlainPiece>>, <<PlainPiece, PieceA>>, <<PieceB>>}

StdinTemplates == {<<>>, <<PieceA, PieceB>>}

\* a descriptor is a dict: 'cmd', 'stdin' and 'run_as_root' may be missing
CmdInfos ==
    [cmd : CmdTemplates, stdin : StdinTemplates, run_as_root : BOOLEAN]
        \cup [cmd : CmdTemplates, run_as_root : {TRUE}]
        \cup [cmd : CmdTemplates]
        \cup [stdin : StdinTemplates]

ExecParams ==
    {<<>>, (<<"A">> :> <<"x">>), (<<"A">> :> <<"x">>) @@ (<<"B">> :> <<"x">>)}

ExecKargs ==
    [params : ExecParams, ignore_missing : BOOLEAN]
        \cup [params : ExecParams]
        \cup [ignore_missing : BOOLEAN]

InitExec ==
    /\ et_cmds \in SeqsUpTo(CmdInfos, MaxCmds)
    /\ et_kargs \in ExecKargs
    /\ et_params = <<>>
    /\ et_ignore_missing = FALSE
    /\ et_pc = "start"
    /\ et_i = 0
    /\ cmd_to_run = <<>>
    /\ et_stdin = PyNone
    /\ cmd_results = <<>>
    /\ et_calls = <<>>
    /\ et_outcome = <<>>
    /\ IdleResolve /\ IdleParam /\ IdlePkg /\ IdleParse /\ IdleRuntime /\ IdleInstall

\* lines 80-81: no command, nothing to do, None is returned
ExecNothing ==
    /\ et_pc = "start"
    /\ Len(et_cmds) = 0
    /\ et_pc' = "returned"
    /\ et_outcome' = Returned(PyNone)
    /\ UNCHANGED <<et_cmds, et_kargs, et_params, et_ignore_missing, et_i,
                   cmd_to_run, et_stdin, cmd_results, et_calls>>
    /\ UNCHANGED <<rdVars, prVars, pkVars, pcVars, rtVars, inVars>>

\* lines 82-84: kargs.pop('params') raises KeyError without that keyword
ExecBegin ==
    /\ et_pc = "start"
    /\ Len(et_cmds) > 0
    /\ IF "params" \notin DOMAIN et_kargs
       THEN /\ et_pc' = "raised"
            /\ et_outcome' = Raised("KeyError", <<"params">>)
            /\ UNCHANGED <<et_i, cmd_results, et_params, et_ignore_missing>>
       ELSE /\ et_pc' = "subst"
            /\ et_params' = et_kargs.params
            /\ et_ignore_missing' =
                   IF "ignore_missing" \in DOMAIN et_kargs
                   THEN et_kargs.ignore_missing ELSE FALSE
            /\ et_i' = 1
            /\ cmd_results' = <<>>
            /\ UNCHANGED et_outcome
    /\ UNCHANGED <<et_cmds, et_kargs, cmd_to_run, et_stdin, et_calls>>
    /\ UNCHANGED <<rdVars, prVars, pkVars, pcVars, rtVars, inVars>>

\* lines 86-105: the argument vector and the stdin blob of cmds[et_i]
ExecSubstitute ==
    /\ et_pc = "subst"
    /\ LET cmdinfo == et_cmds[et_i]
           \* cmdinfo.get("cmd") is None without that key: iterating it raises
           argv == IF "cmd" \notin DOMAIN cmdinfo
                   THEN Raised("TypeError", <<>>)
                   ELSE SubstPieces(cmdinfo.cmd, et_params, et_ignore_missing)
           stdin == SubstStdin(cmdinfo, et_params, et_ignore_missing)
       IN  IF argv.raised
           THEN /\ et_pc' = "raised"
                /\ et_outcome' = argv
                /\ UNCHANGED <<cmd_to_run, et_stdin>>
           ELSE IF stdin.raised
           THEN /\ et_pc' = "raised"
                /\ et_outcome' = stdin
                /\ cmd_to_run' = argv.value
                /\ UNCHANGED et_stdin
           ELSE /\ et_pc' = "run"
                /\ cmd_to_run' = argv.value
                /\ et_stdin' = stdin.value
                /\ UNCHANGED et_outcome
    /\ UNCHANGED <<et_cmds, et_kargs, et_params, et_ignore_missing, et_i,
                   cmd_results, et_calls>>
    /\ UNCHANGED <<rdVars, prVars, pkVars, pcVars, rtVars, inVars>>

\* the iteration of line 85 ending after its first command
LoopAfter_once(i) == "return"

\* line 85: after cmds[i], the for loop goes on to the next descriptor or ends
LoopAfter(i) == IF i < Len(et_cmds) THEN "subst" ELSE "return"

\* line 105: cmdinfo.get('run_as_root', False)
RunAsRoot(cmdinfo) ==
    IF "run_as_root" \in DOMAIN cmdinfo THEN cmdinfo.run_as_root ELSE FALSE

\* lines 105-107: sh.execute runs the vector; it returns a result, which is
\* appended, or raises
ExecRun ==
    /\ et_pc = "run"
    /\ LET call == [argv |-> cmd_to_run, process_input |-> et_stdin,
                    run_as_root |-> RunAsRoot(et_cmds[et_i])]
       IN  /\ et_calls' = Append(et_calls, call)
           /\ \E ok \in BOOLEAN :
                IF ok
                THEN /\ cmd_results' =
                           Append(cmd_results, [call |-> Len(et_calls) + 1])
                     /\ et_pc' = LoopAfter(et_i)
                     /\ et_i' = et_i + 1
                     /\ UNCHANGED et_outcome
                ELSE /\ et_pc' = "raised"
                     /\ et_outcome' = Raised("ProcessExecutionError", cmd_to_run)
                     /\ UNCHANGED <<cmd_results, et_i>>
    /\ UNCHANGED <<et_cmds, et_kargs, et_params, et_ignore_missing, cmd_to_run,
                   et_stdin>>
    /\ UNCHANGED <<rdVars, prVars, pkVars, pcVars, rtVars, inVars>>

\* line 108
ExecReturn ==
    /\ et_pc = "return"
    /\ et_pc' = "returned"
    /\ et_outcome' = Returned(cmd_results)
    /\ UNCHANGED <<et_cmds, et_kargs, et_params, et_ignore_missing, et_i,
                   cmd_to_run, et_stdin, cmd_results, et_calls>>
    /\ UNCHANGED <<rdVars, prVars, pkVars, pcVars, rtVars, inVars>>

NextExec == ExecNothing \/ ExecBegin \/ ExecSubstitute \/ ExecRun \/ ExecReturn

SpecExec == InitExec /\ [][NextExec]_vars

\* What descriptor d asks sh.execute to run: each argument token and each
\* stdin line with its placeholders replaced.
Token(t) ==
    IF HasReplacements(et_params)
    THEN param_replace(t, et_params, et_ignore_missing).value
    ELSE t

ExpectedCall(d) ==
    [argv |-> [n \in 1..Len(d.cmd) |-> Token(d.cmd[n])],
     process_input |->
        IF "stdin" \notin DOMAIN d \/ d.stdin = <<>> THEN PyNone
        ELSE joinlinesep([n \in 1..Len(d.stdin) |-> Token(d.stdin[n])]),
     run_as_root |-> "run_as_root" \in DOMAIN d /\ d.run_as_root]

\* C7: the j-th call of sh.execute runs the fully substituted j-th descriptor
\* and no call is made while an earlier descriptor is unfinished; a call that
\* returns has one result per descriptor, the i-th from the i-th call; a
\* call that raised at descriptor k made no call for a later one; an empty
\* batch makes no call and returns None.
ExecInOrder ==
    /\ Len(et_calls) <= Len(et_cmds)
    /\ \A j \in 1..Len(et_calls) : et_calls[j] = ExpectedCall(et_cmds[j])
    /\ Len(cmd_results) <= Len(et_calls)
    /\ \A j \in 1..Len(cmd_results) : cmd_results[j].call = j
    /\ et_pc = "run" => Len(et_calls) = et_i - 1 /\ Len(cmd_results) = et_i - 1
    /\ et_pc = "returned" /\ Len(et_cmds) > 0 =>
          /\ ~et_outcome.raised
          /\ et_outcome.value = cmd_results
          /\ Len(cmd_results) = Len(et_cmds)
          /\ Len(et_calls) = Len(et_cmds)
    /\ et_pc = "returned" /\ Len(et_cmds) = 0 =>
          et_outcome = Returned(PyNone) /\ et_calls = <<>>
    /\ et_pc = "raised" =>
          /\ et_outcome.raised
          /\ Len(cmd_results) =
                IF "params" \in DOMAIN et_kargs THEN et_i - 1 ELSE 0
          /\ Len(et_calls) \in {Len(cmd_results), Len(cmd_results) + 1}

\* C7 witness: a batch of two whose first command ran and whose second failed
\* in substitution, and (other run) a batch of two that returned two results.
ExecInOrderWitness ==
    /\ Len(et_cmds) = 2
    /\ et_pc = "raised"
    /\ et_outcome.exc = "NoReplacementException"
    /\ et_i = 2
    /\ Len(et_calls) = 1
    /\ et_calls[1].argv = <<PlainPiece, <<"x">> >>

(***************************************************************************)
(* get_pkg_list                                                            *)
(***************************************************************************)
\* constants.PRE_INSTALL and constants.POST_INSTALL: the two action-list keys
PRE_INSTALL == "pre-install"

POST_INSTALL == "post-install"

\* d.get(k) or []
ListOrEmpty(d, k) == IF k \in DOMAIN d THEN d[k] ELSE <<>>

\* lines 263-272 as the pip rule of get_pip_list: the later entry replaces
\* the earlier one
MergeInfo_overwrite(oldpkginfo, pkginfo) == pkginfo

\* lines 263-272: the entry of a package already in all_pkgs
MergeInfo(oldpkginfo, pkginfo) ==
    [infokey \in DOMAIN oldpkginfo \cup DOMAIN pkginfo |->
        IF infokey \in DOMAIN pkginfo
        THEN IF infokey = PRE_INSTALL \/ infokey = POST_INSTALL
             THEN ListOrEmpty(oldpkginfo, infokey) \o pkginfo[infokey]
             ELSE pkginfo[infokey]
        ELSE oldpkginfo[infokey]]

\* lines 260-275: distro_pkgs merged into all_pkgs
MergeSection(pkgs, distro_pkgs) ==
    [pkgname \in DOMAIN pkgs \cup DOMAIN distro_pkgs |->
        IF pkgname \notin DOMAIN distro_pkgs THEN pkgs[pkgname]
        ELSE IF pkgname \in DOMAIN pkgs
             THEN MergeInfo(pkgs[pkgname], distro_pkgs[pkgname])
             ELSE distro_pkgs[pkgname]]

\* lines 257-275: one file: its section for the distro, when it has one that
\* is not empty, is merged
MergeFile(pkgs, js, distro) ==
    IF distro \in DOMAIN js /\ DOMAIN js[distro] # {}
    THEN MergeSection(pkgs, js[distro])
    ELSE pkgs

\* the manifests the inputs are drawn from: an entry has any of three
\* fields, a section any of two packages, a file any of two distros
InfoValues(k) ==
    IF k = PRE_INSTALL THEN {<<"x">>}
    ELSE IF k = POST_INSTALL THEN {<<"z">>}
    ELSE {<<"1">>, <<"2">>}

InfoKeys == {PRE_INSTALL, POST_INSTALL, "version"}

PkgInfos ==
    UNION {{f \in [D -> {<<"x">>, <<"z">>, <<"1">>, <<"2">>}] :
               \A k \in D : f[k] \in InfoValues(k)} : D \in SUBSET InfoKeys}

Sections ==
    {<<>>} \cup {("p" :> i) : i \in PkgInfos}
        \cup {("q" :> (PRE_INSTALL :> <<"y">>))}
        \cup {("p" :> i) @@ ("q" :> (PRE_INSTALL :> <<"y">>)) : i \in PkgInfos}

Manifests ==
    {("ubuntu" :> sec) : sec \in Sections}
        \cup {("ubuntu" :> sec) @@ ("rhel" :> ("p" :> ("version" :> <<"9">>))) :
                 sec \in Sections}
        \cup {("rhel" :> ("p" :> ("version" :> <<"9">>)))}

InitPkg ==
    /\ pk_distro = "ubuntu"
    /\ pk_declared \in BOOLEAN
    /\ pk_files \in SeqsUpTo(Manifests, MaxFiles)
    /\ pk_declared = FALSE => pk_files = <<>>
    /\ pk_pc = "start"
    /\ pk_n = 0
    /\ all_pkgs = <<>>
    /\ IdleResolve /\ IdleParam /\ IdleExec /\ IdleParse /\ IdleRuntime /\ IdleInstall

\* lines 251-254
PkgBegin ==
    /\ pk_pc = "start"
    /\ all_pkgs' = <<>>
    /\ pk_pc' = IF pk_declared THEN "loop" ELSE "done"
    /\ UNCHANGED <<pk_distro, pk_declared, pk_files, pk_n>>
    /\ UNCHANGED <<rdVars, prVars, etVars, pcVars, rtVars, inVars>>

\* lines 256-275: one iteration of "for fn in fns"
PkgMergeFile ==
    /\ pk_pc = "loop"
    /\ pk_n < Len(pk_files)
    /\ all_pkgs' = MergeFile(all_pkgs, pk_files[pk_n + 1], pk_distro)
    /\ pk_n' = pk_n + 1
    /\ UNCHANGED <<pk_distro, pk_declared, pk_files, pk_pc>>
    /\ UNCHANGED <<rdVars, prVars, etVars, pcVars, rtVars, inVars>>

\* line 276
PkgReturn ==
    /\ pk_pc = "loop"
    /\ pk_n = Len(pk_files)
    /\ pk_pc' = "done"
    /\ UNCHANGED <<pk_distro, pk_declared, pk_files, pk_n, all_pkgs>>
    /\ UNCHANGED <<rdVars, prVars, etVars, pcVars, rtVars, inVars>>

NextPkg == PkgBegin \/ PkgMergeFile \/ PkgReturn

SpecPkg == InitPkg /\ [][NextPkg]_vars

\* The files, by position, whose section for the distro names package pkg.
FilesWith(pkg) ==
    {n \in 1..Len(pk_files) :
        pk_distro \in DOMAIN pk_files[n] /\ pkg \in DOMAIN pk_files[n][pk_distro]}

EntryIn(n, pkg) == pk_files[n][pk_distro][pkg]

\* The action lists under key k of the files of ns, from position n on, one
\* after the other.
RECURSIVE ConcatFrom(_, _, _, _)
ConcatFrom(n, ns, pkg, k) ==
    IF n > Len(pk_files) THEN <<>>
    ELSE (IF n \in ns THEN ListOrEmpty(EntryIn(n, pkg), k) ELSE <<>>)
         \o ConcatFrom(n + 1, ns, pkg, k)

Latest(ns) == CHOOSE n \in ns : \A m \in ns : m <= n

\* the names the returned mapping has: those some file gives for the distro
ReturnsNamedPackages ==
    DOMAIN all_pkgs = {pkg \in {"p", "q"} : FilesWith(pkg) # {}}

\* the two action lists of a returned entry are the files' lists in file order
ActionListsConcatenated(pkg) ==
    \A k \in {PRE_INSTALL, POST_INSTALL} :
        ListOrEmpty(all_pkgs[pkg], k) = ConcatFrom(1, FilesWith(pkg), pkg, k)

COMPONENT_NAMES == {<<"n">>, <<"k">>, <<"n", "k">>}

\* The characters of the raw entries: two letters of registry names (one in
\* upper case), a blank, and the punctuation of the selection syntax.
RawChars == {"n", "K", " ", "(", ")", ","}

IsSpace(ch) == ch = " "

\* the class [\w-]
IsNameChar(ch) == ch \in {"n", "K", "k", "-"}

\* str.lower(), character by character
LowerChar(ch) == IF ch = "K" THEN "k" ELSE ch

Lower(str) == [n \in 1..Len(str) |-> LowerChar(str[n])]

\* str.strip()
RECURSIVE Strip(_)
Strip(str) ==
    IF Len(str) = 0 THEN str
    ELSE IF IsSpace(str[1]) THEN Strip(Tail(str))
    ELSE IF IsSpace(str[Len(str)]) THEN Strip(SubSeq(str, 1, Len(str) - 1))
    ELSE str

\* str.split(","), from position i on, cur being the piece read so far
RECURSIVE SplitComma(_, _, _)
SplitComma(str, i, cur) ==
    IF i > Len(str) THEN <<cur>>
    ELSE IF str[i] = "," THEN <<cur>> \o SplitComma(str, i + 1, <<>>)
    ELSE SplitComma(str, i + 1, Append(cur, str[i]))

\* the first position from i on that holds no blank
RECURSIVE SkipSpaces(_, _)
SkipSpaces(c, i) ==
    IF i <= Len(c) /\ IsSpace(c[i]) THEN SkipSpaces(c, i + 1) ELSE i

\* the number of [\w-] characters from position i on
RECURSIVE NameRun(_, _)
NameRun(c, i) ==
    IF i <= Len(c) /\ IsNameChar(c[i]) THEN 1 + NameRun(c, i + 1) ELSE 0

\* the last position that holds no blank (0 when there is none)
RECURSIVE LastNonSpace(_, _)
LastNonSpace(c, i) ==
    IF i >= 1 /\ IsSpace(c[i]) THEN LastNonSpace(c, i - 1) ELSE i

NoMatch == [matched |-> FALSE, name |-> <<>>, has_opts |-> FALSE, opts |-> <<>>]

\* line 116, 119: EXT_COMPONENT = ^\s*([\w-]+)(?:\((.*)\))?\s*$ matched
\* against c: group 1, and group 2 when the parenthesised part is there
EXT_COMPONENT_match(c) ==
    LET a == SkipSpaces(c, 1)
        k == NameRun(c, a)
        r == a + k
        z == LastNonSpace(c, Len(c))
    IN  IF k = 0 THEN NoMatch
        ELSE IF z < r
             THEN [matched |-> TRUE, name |-> SubSeq(c, a, r - 1),
                   has_opts |-> FALSE, opts |-> <<>>]
        ELSE IF c[r] = "(" /\ z > r /\ c[z] = ")"
             THEN [matched |-> TRUE, name |-> SubSeq(c, a, r - 1),
                   has_opts |-> TRUE, opts |-> SubSeq(c, r + 1, z - 1)]
        ELSE NoMatch

\* line 121 without the lower-casing
ComponentName_nolower(mtch) == Strip(mtch.name)

\* line 121: mtch.group(1).lower().strip()
ComponentName(mtch) == Strip(Lower(mtch.name))

\* lines 131-134: the options, stripped, the empty ones left out
RECURSIVE CleanOpts(_)
CleanOpts(sp_component_opts) ==
    IF Len(sp_component_opts) = 0 THEN <<>>
    ELSE LET cleaned_opt == Strip(sp_component_opts[1])
         IN  (IF Len(cleaned_opt) > 0 THEN <<cleaned_opt>> ELSE <<>>)
             \o CleanOpts(Tail(sp_component_opts))

\* lines 125-134: components_opts_cleaned
ComponentOpts(mtch) ==
    IF ~mtch.has_opts \/ Len(mtch.opts) = 0 THEN <<>>
    ELSE CleanOpts(SplitComma(mtch.opts, 1, <<>>))

\* lines 119-137: what one entry does to adjusted_components
ParseEntry(adjusted, c) ==
    LET mtch == EXT_COMPONENT_match(c)
    IN  IF mtch.matched
        THEN LET component_name == ComponentName(mtch)
             IN  IF component_name \notin COMPONENT_NAMES
                 THEN adjusted  \* LOG.warn: unknown component
                 ELSE [n \in DOMAIN adjusted \cup {component_name} |->
                         IF n = component_name THEN ComponentOpts(mtch)
                         ELSE adjusted[n]]
        ELSE adjusted  \* LOG.warn: unparseable component

\* lines 123, 137: the LOG.warn calls one entry causes
Warnings(c) ==
    LET mtch == EXT_COMPONENT_match(c)
    IN  IF mtch.matched /\ ComponentName(mtch) \in COMPONENT_NAMES THEN 0 ELSE 1

\* The selection syntax, spelled out: blanks, the name, optionally a
\* parenthesised rest, blanks.  Entry c names nm (in any letter case) when it
\* can be cut that way.
AllSpaces(c, from, to) == \A n \in from..to : IsSpace(c[n])

Selects(c, nm) ==
    \E a \in 1..Len(c) : \E b \in a..Len(c) :
        /\ AllSpaces(c, 1, a - 1)
        /\ \A n \in a..b : IsNameChar(c[n])
        /\ Lower(SubSeq(c, a, b)) = nm
        /\ \/ AllSpaces(c, b + 1, Len(c))
           \/ /\ b + 1 <= Len(c)
              /\ c[b + 1] = "("
              /\ \E e \in (b + 2)..Len(c) :
                    c[e] = ")" /\ AllSpaces(c, e + 1, Len(c))

RawEntries == SeqsUpTo(RawChars, MaxRaw)

InitParse ==
    /\ pc_assume_all \in BOOLEAN
    /\ pc_pc = "loop"
    /\ pc_n = 0
    /\ pc_warned = 0
    /\ pc_accepted = {}
    /\ adjusted_components = <<>>
    /\ IdleResolve /\ IdleParam /\ IdleExec /\ IdlePkg /\ IdleRuntime /\ IdleInstall

\* lines 118-137: one iteration of "for c in components", on an entry c
ParseNext ==
    /\ pc_pc = "loop"
    /\ pc_n < MaxEntries
    /\ \E c \in RawEntries :
          /\ adjusted_components' = ParseEntry(adjusted_components, c)
          /\ pc_warned' = pc_warned + Warnings(c)
          /\ pc_accepted' =
                pc_accepted \cup {nm \in COMPONENT_NAMES : Selects(c, nm)}
    /\ pc_n' = pc_n + 1
    /\ UNCHANGED <<pc_assume_all, pc_pc>>
    /\ UNCHANGED <<rdVars, prVars, etVars, pkVars, rtVars, inVars>>

\* lines 139-144: the list is exhausted
ParseReturn ==
    /\ pc_pc = "loop"
    /\ pc_pc' = "done"
    /\ adjusted_components' =
          IF DOMAIN adjusted_components = {} /\ pc_assume_all
          THEN [c \in COMPONENT_NAMES |-> <<>>]
          ELSE adjusted_components
    /\ UNCHANGED <<pc_assume_all, pc_n, pc_warned, pc_accepted>>
    /\ UNCHANGED <<rdVars, prVars, etVars, pkVars, rtVars, inVars>>

NextParse == ParseNext \/ ParseReturn

SpecParse == InitParse /\ [][NextParse]_vars

\* C9: the returned mapping has exactly the lower-cased registry names the
\* entries select; when there is none and assume_all is set it is every
\* registry name with an empty option list, and when there is none and
\* assume_all is unset it is empty.
ParsedComponents ==
    /\ pc_pc = "loop" => DOMAIN adjusted_components = pc_accepted
    /\ pc_pc = "done" =>
          IF pc_accepted = {} /\ pc_assume_all
          THEN adjusted_components = [c \in COMPONENT_NAMES |-> <<>>]
          ELSE DOMAIN adjusted_components = pc_accepted

\* C9 witness: a returned call of three entries, one dropped with a warning,
\* the others naming the same registry component, partly in upper case.
ParsedComponentsWitness ==
    /\ pc_pc = "done"
    /\ pc_n = 3
    /\ pc_warned = 1
    /\ pc_accepted = {<<"n", "k">>}
    /\ adjusted_components = (<<"n", "k">> :> <<>>)

(***************************************************************************)
(* KeystoneRuntime                                                         *)
(***************************************************************************)
\* The names keystone.py binds at module level (lines 17-68 and its classes).
ModuleGlobals ==
    {"copy", "io", "yaml", "cfg", "colorizer", "comp", "logging", "sh", "utils",
     "dbhelper", "ghelper", "khelper", "nhelper", "qhelper", "LOG", "DB_NAME",
     "INIT_WHAT_FN", "INIT_WHAT_HAPPENED", "ROOT_CONF", "LOGGING_CONF",
     "POLICY_JSON", "CONFIGS", "SYNC_DB_CMD", "APP_NAME", "APP_OPTIONS",
     "KeystoneUninstaller", "KeystoneInstaller", "KeystoneRuntime"}

\* The names post_start binds itself before line 203.
PostStartLocals == {"self", "cfg", "_fn", "contents", "init_what"}

\* Python's name lookup: a name is found among the locals or the globals.
NameDefined(name, locals) == name \in locals \cup ModuleGlobals

\* the runtime processes that may run the hook against one marker path
Procs == {1, 2}

\* the done-marker file: missing, or a file with some content
NoFile == [exists |-> FALSE, content |-> ""]

File(content) == [exists |-> TRUE, content |-> content]

\* sh.isfile(self.init_fn)
isfile(m) == m.exists

\* utils.prettify_yaml(init_what): the text line 205 writes
PrettyInitWhat == "prettify_yaml(init_what)"

\* line 190 with "or" in the place of "and"
PostStartGuard_or(m, do_init) == ~isfile(m) \/ do_init

\* line 190: not sh.isfile(self.init_fn) and self.get_option('do-init')
PostStartGuard(m, do_init) == ~isfile(m) /\ do_init

\* the marker written as soon as the guard has passed
MarkerAfter_early(stmt, m) ==
    IF stmt \in {"sleep", "write_file"} THEN File(PrettyInitWhat) ELSE m

\* What each statement of post_start leaves at the marker path: only line 205
\* (sh.write_file) writes it.
MarkerAfter(stmt, m) ==
    IF stmt = "write_file" THEN File(PrettyInitWhat) ELSE m

\* lines 196-199: the helpers asked for their shared parameters, in order
SharedParamHelpers == <<"ghelper", "khelper", "nhelper", "qhelper">>

InitRuntime ==
    /\ marker \in {NoFile, File("earlier run")}
    /\ rt_has_init_what \in BOOLEAN
    /\ rt_ctor = [p \in Procs |-> "none"]
    /\ rt_pc = [p \in Procs |-> "idle"]
    /\ rt_starts = [p \in Procs |-> 0]
    /\ rt_entry = [p \in Procs |->
                      [existed |-> FALSE, do_init |-> FALSE, alongside |-> {}]]
    /\ rt_prev = [p \in Procs |-> "idle"]
    /\ rt_trace = [p \in Procs |-> <<>>]
    /\ rt_cfg = [p \in Procs |-> <<>>]
    /\ rt_wrote = [p \in Procs |-> FALSE]
    /\ rt_failed = [p \in Procs |-> FALSE]
    /\ rt_exc = [p \in Procs |-> ""]
    /\ IdleResolve /\ IdleParam /\ IdleExec /\ IdlePkg /\ IdleParse /\ IdleInstall

\* One statement of post_start, on process p: the boundary call it makes (if
\* any) joins the trace, and it goes on to pc next or raises exc.
Proceed(p, stmt, next) ==
    /\ rt_trace' = [rt_trace EXCEPT ![p] = Append(@, stmt)]
    /\ rt_pc' = [rt_pc EXCEPT ![p] = next]
    /\ marker' = MarkerAfter(stmt, marker)
    /\ UNCHANGED <<rt_failed, rt_exc>>

\* the statement's boundary call fails: the exception leaves post_start
BoundaryFails(p, stmt, exc) ==
    /\ rt_trace' = [rt_trace EXCEPT ![p] = Append(@, stmt)]
    /\ rt_pc' = [rt_pc EXCEPT ![p] = "raised"]
    /\ rt_failed' = [rt_failed EXCEPT ![p] = TRUE]
    /\ rt_exc' = [rt_exc EXCEPT ![p] = exc]
    /\ UNCHANGED marker

\* lines 183-187: KeystoneRuntime.__init__.  Line 185 reads the global name
\* BIN_DIR before lines 186-187 set wait_time and init_fn.
RuntimeConstruct(p) ==
    /\ rt_ctor[p] = "none"
    /\ rt_ctor' = [rt_ctor EXCEPT ![p] =
                     IF NameDefined("BIN_DIR", {"self", "args", "kargs"})
                     THEN "constructed" ELSE "NameError"]
    /\ UNCHANGED <<marker, rt_has_init_what, rt_pc, rt_starts,
                   rt_entry, rt_prev, rt_trace, rt_cfg, rt_wrote, rt_failed,
                   rt_exc>>
    /\ UNCHANGED <<rdVars, prVars, etVars, pkVars, pcVars, inVars>>

\* the other processes that are past the check of line 190 and have not left
\* the body of the if: nothing in lines 189-206 takes a lock or looks at them
Initializing(p) ==
    {q \in Procs \ {p} :
        rt_pc[q] \in {"sleep", "log", "gather", "load", "resolve", "initialize"}}

\* line 190: the hook is called (again) and tests the marker and the option
PostStartCheck(p) ==
    /\ rt_pc[p] \in {"idle", "returned", "raised"}
    /\ rt_starts[p] < MaxStarts
    /\ \E do_init \in BOOLEAN :
          /\ rt_entry' = [rt_entry EXCEPT ![p] =
                             [existed |-> isfile(marker), do_init |-> do_init,
                              alongside |-> Initializing(p)]]
          /\ rt_pc' = [rt_pc EXCEPT ![p] =
                          IF PostStartGuard(marker, do_init)
                          THEN "sleep" ELSE "returned"]
    /\ rt_starts' = [rt_starts EXCEPT ![p] = @ + 1]
    /\ rt_prev' = [rt_prev EXCEPT ![p] = rt_pc[p]]
    /\ rt_trace' = [rt_trace EXCEPT ![p] = <<>>]
    /\ rt_cfg' = [rt_cfg EXCEPT ![p] = <<>>]
    /\ rt_wrote' = [rt_wrote EXCEPT ![p] = FALSE]
    /\ rt_failed' = [rt_failed EXCEPT ![p] = FALSE]
    /\ rt_exc' = [rt_exc EXCEPT ![p] = ""]
    /\ marker' = MarkerAfter("isfile", marker)
    /\ UNCHANGED <<rt_has_init_what, rt_ctor>>
    /\ UNCHANGED <<rdVars, prVars, etVars, pkVars, pcVars, inVars>>

\* lines 191-192: sh.sleep(self.wait_time)
PostStartSleep(p) ==
    /\ rt_pc[p] = "sleep"
    /\ Proceed(p, "sleep", "log")
    /\ UNCHANGED <<rt_has_init_what, rt_ctor, rt_starts, rt_entry,
                   rt_prev, rt_cfg, rt_wrote>>
    /\ UNCHANGED <<rdVars, prVars, etVars, pkVars, pcVars, inVars>>

\* lines 193-194: the debug line reads self.init_what, which this class never
\* sets: it is there only if the framework's base class provides it
PostStartLog(p) ==
    /\ rt_pc[p] = "log"
    /\ IF rt_has_init_what
       THEN /\ rt_pc' = [rt_pc EXCEPT ![p] = "gather"]
            /\ UNCHANGED <<rt_failed, rt_exc>>
       ELSE /\ rt_pc' = [rt_pc EXCEPT ![p] = "raised"]
            /\ rt_failed' = [rt_failed EXCEPT ![p] = TRUE]
            /\ rt_exc' = [rt_exc EXCEPT ![p] = "AttributeError"]
    /\ UNCHANGED <<marker, rt_trace>>
    /\ UNCHANGED <<rt_has_init_what, rt_ctor, rt_starts, rt_entry,
                   rt_prev, rt_cfg, rt_wrote>>
    /\ UNCHANGED <<rdVars, prVars, etVars, pkVars, pcVars, inVars>>

\* lines 195-200: the next get_shared_params call of the dict display
PostStartGather(p) ==
    /\ rt_pc[p] = "gather"
    /\ LET helper == SharedParamHelpers[Len(rt_cfg[p]) + 1]
       IN  \E ok \in BOOLEAN :
              IF ok
              THEN /\ Proceed(p, helper,
                             IF Len(rt_cfg[p]) + 1 = Len(SharedParamHelpers)
                             THEN "load" ELSE "gather")
                   /\ rt_cfg' = [rt_cfg EXCEPT ![p] = Append(@, helper)]
              ELSE /\ BoundaryFails(p, helper, "helper error")
                   /\ UNCHANGED rt_cfg
    /\ UNCHANGED <<rt_has_init_what, rt_ctor, rt_starts, rt_entry,
                   rt_prev, rt_wrote>>
    /\ UNCHANGED <<rdVars, prVars, etVars, pkVars, pcVars, inVars>>

\* line 201: utils.load_template(self.name, INIT_WHAT_FN)
PostStartLoad(p) ==
    /\ rt_pc[p] = "load"
    /\ \E ok \in BOOLEAN :
          IF ok THEN Proceed(p, "load_template", "resolve")
          ELSE BoundaryFails(p, "load_template", "IOError")
    /\ UNCHANGED <<rt_has_init_what, rt_ctor, rt_starts, rt_entry,
                   rt_prev, rt_cfg, rt_wrote>>
    /\ UNCHANGED <<rdVars, prVars, etVars, pkVars, pcVars, inVars>>

\* line 202: yaml.load, copy.deepcopy, utils.param_replace_deep
PostStartResolve(p) ==
    /\ rt_pc[p] = "resolve"
    /\ \E outcome \in {"ok", "YAMLError", "NoReplacementException"} :
          IF outcome = "ok" THEN Proceed(p, "param_replace_deep", "initialize")
          ELSE BoundaryFails(p, "param_replace_deep", outcome)
    /\ UNCHANGED <<rt_has_init_what, rt_ctor, rt_starts, rt_entry,
                   rt_prev, rt_cfg, rt_wrote>>
    /\ UNCHANGED <<rdVars, prVars, etVars, pkVars, pcVars, inVars>>

\* lines 203-206: the argument of khelper.Initializer reads the name
\* initial_cfg; were it bound, the initializer would run and, after it, line
\* 205 would write the marker
PostStartInitialize(p) ==
    /\ rt_pc[p] = "initialize"
    /\ IF NameDefined("initial_cfg", PostStartLocals)
       THEN \E ok \in BOOLEAN :
               IF ok
               THEN /\ rt_trace' = [rt_trace EXCEPT ![p] =
                                      @ \o <<"initialize", "write_file">>]
                    /\ marker' = MarkerAfter("write_file",
                                             MarkerAfter("initialize", marker))
                    /\ rt_wrote' = [rt_wrote EXCEPT ![p] = TRUE]
                    /\ rt_pc' = [rt_pc EXCEPT ![p] = "returned"]
                    /\ UNCHANGED <<rt_failed, rt_exc>>
               ELSE /\ BoundaryFails(p, "initialize", "initializer error")
                    /\ UNCHANGED rt_wrote
       ELSE /\ rt_pc' = [rt_pc EXCEPT ![p] = "raised"]
            /\ rt_exc' = [rt_exc EXCEPT ![p] = "NameError"]
            /\ UNCHANGED <<marker, rt_trace, rt_failed, rt_wrote>>
    /\ UNCHANGED <<rt_has_init_what, rt_ctor, rt_starts, rt_entry,
                   rt_prev, rt_cfg>>
    /\ UNCHANGED <<rdVars, prVars, etVars, pkVars, pcVars, inVars>>

\* the operator deletes the marker to force a new initialization (line 206)
DeleteMarker ==
    /\ isfile(marker)
    /\ marker' = NoFile
    /\ UNCHANGED <<rt_has_init_what, rt_ctor, rt_pc, rt_starts,
                   rt_entry, rt_prev, rt_trace, rt_cfg, rt_wrote, rt_failed,
                   rt_exc>>
    /\ UNCHANGED <<rdVars, prVars, etVars, pkVars, pcVars, inVars>>

NextRuntime ==
    \/ DeleteMarker
    \/ \E p \in Procs :
          \/ RuntimeConstruct(p)
          \/ PostStartCheck(p)
          \/ PostStartSleep(p)
          \/ PostStartLog(p)
          \/ PostStartGather(p)
          \/ PostStartLoad(p)
          \/ PostStartResolve(p)
          \/ PostStartInitialize(p)

SpecRuntime == InitRuntime /\ [][NextRuntime]_vars

\* the hook of p is inside the first-run initialization, or left it
InInit(p) ==
    rt_pc[p] \in {"sleep", "log", "gather", "load", "resolve", "initialize"}

\* C2: a call of post_start waits, calls a helper or the initializer, or
\* writes the marker only if at its check the marker was absent and 'do-init'
\* was enabled; a call that found the marker present or the option disabled
\* has returned having done none of these.
InitOnlyWhenGuarded ==
    \A p \in Procs :
        /\ InInit(p) \/ rt_trace[p] # <<>> \/ rt_wrote[p] =>
              ~rt_entry[p].existed /\ rt_entry[p].do_init
        /\ rt_starts[p] > 0 /\ (rt_entry[p].existed \/ ~rt_entry[p].do_init) =>
              /\ rt_pc[p] = "returned"
              /\ rt_trace[p] = <<>>
              /\ ~rt_wrote[p]

\* C2 witness: a call that found the marker of an earlier run, with the option
\* enabled, and returned at once; the marker is still that file.
InitOnlyWhenGuardedWitness ==
    \E p \in Procs :
        /\ rt_pc[p] = "returned"
        /\ rt_entry[p].existed /\ rt_entry[p].do_init
        /\ rt_trace[p] = <<>>
        /\ marker = File("earlier run")

\* C3 as stated: a call that found the marker absent and the option enabled,
\* and in which no boundary call failed, ends by returning, having called the
\* initializer and written the marker.
InitRunsToCompletion ==
    \A p \in Procs :
        /\ rt_pc[p] \in {"returned", "raised"}
        /\ rt_starts[p] > 0
        /\ ~rt_entry[p].existed /\ rt_entry[p].do_init
        /\ ~rt_failed[p]
        => /\ rt_pc[p] = "returned"
           /\ "initialize" \in Range(rt_trace[p])
           /\ rt_wrote[p]

\* C4: the marker is written only after the initializer call of the same
\* invocation succeeded; an invocation that raised wrote nothing and leaves
\* the marker absent; and the invocation after one that raised, with the
\* option enabled, starts the initialization again from its first step.
MarkerOnlyAfterInit ==
    \A p \in Procs :
        /\ rt_wrote[p] =>
              /\ ~rt_failed[p]
              /\ Len(rt_trace[p]) >= 2
              /\ rt_trace[p][Len(rt_trace[p]) - 1] = "initialize"
              /\ rt_trace[p][Len(rt_trace[p])] = "write_file"
        /\ rt_pc[p] = "raised" =>
              /\ rt_exc[p] # ""
              /\ ~rt_wrote[p]
              /\ ~isfile(marker)
        /\ rt_starts[p] > 0 /\ rt_prev[p] = "raised" /\ rt_entry[p].do_init =>
              /\ ~rt_entry[p].existed
              /\ rt_pc[p] # "returned"
              /\ IsPrefix(rt_trace[p],
                          <<"sleep">> \o SharedParamHelpers
                              \o <<"load_template", "param_replace_deep",
                                   "initialize", "write_file">>)

\* C4 witness: an invocation that failed in the placeholder resolution, and
\* after it one of the same process that is again at the template load.
MarkerOnlyAfterInitWitness ==
    \E p \in Procs :
        /\ rt_starts[p] = 2
        /\ rt_prev[p] = "raised"
        /\ rt_pc[p] = "resolve"
        /\ rt_trace[p] = <<"sleep">> \o SharedParamHelpers \o <<"load_template">>
        /\ ~isfile(marker)

(***************************************************************************)
(* KeystoneInstaller                                                       *)
(***************************************************************************)
\* line 37
DB_NAME == "keystone"

\* line 46
ROOT_CONF == "keystone.conf"

\* lines 52-60, each piece of the vector as written
SYNC_DB_CMD ==
    <<"%BIN_DIR%/keystone-manage", "--config-file=%CONFIG_FILE%", "--debug",
      "-v", "db_sync">>

\* line 99: the one descriptor handed to execute_template
SyncCmds == <<[cmd |-> SYNC_DB_CMD, run_as_root |-> TRUE]>>

\* lines 174-179: the base class's mapping with BIN_DIR and CONFIG_FILE set
config_params(mp, bin_dir, cfg_dir) ==
    [k \in DOMAIN mp \cup {"BIN_DIR", "CONFIG_FILE"} |->
        IF k = "BIN_DIR" THEN bin_dir
        ELSE IF k = "CONFIG_FILE" THEN cfg_dir \o "/" \o ROOT_CONF
        ELSE mp[k]]

\* the database 'keystone' of the database server
NoDb == [exists |-> FALSE, utf8 |-> FALSE, schema |-> "none", made_by |-> 0]

\* dbhelper.create_db(..., utf8=True) by the install run number run
CreatedDb(utf8, run) ==
    [exists |-> TRUE, utf8 |-> utf8, schema |-> "none", made_by |-> run]

\* a database left by an earlier deployment
StaleDbs ==
    {[exists |-> TRUE, utf8 |-> u, schema |-> s, made_by |-> 0] :
        u \in BOOLEAN, s \in {"old", "partial"}}

\* the mappings comp.PythonInstallComponent.config_params may return
BaseParams == {<<>>, [BIN_DIR |-> "/usr/bin"], [APP_DIR |-> "/opt/keystone/app"]}

\* the statements of post_install with the helpers inlined, in program order
\* (lines 93, 118, 119, 100 argument, 100 call), the first two swapped with
\* the last two
InstallSteps_syncFirst ==
    <<"post_install", "config_params", "execute_template", "drop_db",
      "create_db">>

\* lines 92-95 with _setup_db (117-119) and _sync_db (97-100) inlined: the
\* statements in program order
InstallSteps ==
    <<"post_install", "drop_db", "create_db", "config_params",
      "execute_template">>

\* the statement after the i-th, once it has returned normally
StepAfter(i) == IF i < Len(InstallSteps) THEN InstallSteps[i + 1] ELSE "done"

InitInstall ==
    /\ db \in {NoDb} \cup StaleDbs
    /\ in_bin_dir \in {"/opt/keystone/app/bin"}
    /\ in_base \in BaseParams
    /\ in_pc = "idle"
    /\ in_i = 0
    /\ in_runs = 0
    /\ in_log = <<>>
    /\ in_params = <<>>
    /\ IdleResolve /\ IdleParam /\ IdleExec /\ IdlePkg /\ IdleParse
    /\ IdleRuntime

\* the boundary call of the current statement returned normally
StepReturns(call) ==
    /\ in_log' = Append(in_log, call)
    /\ in_pc' = StepAfter(in_i)
    /\ in_i' = in_i + 1

\* the boundary call of the current statement raised: nothing in
\* post_install, _setup_db or _sync_db catches it
StepRaises(call) ==
    /\ in_log' = Append(in_log, call)
    /\ in_pc' = "raised"
    /\ UNCHANGED in_i

\* post_install is called (again, after it returned or raised)
PostInstallBegin ==
    /\ in_pc \in {"idle", "done", "raised"}
    /\ in_runs < MaxInstalls
    /\ in_runs' = in_runs + 1
    /\ in_pc' = StepAfter(0)
    /\ in_i' = 1
    /\ in_log' = <<>>
    /\ in_params' = <<>>
    /\ UNCHANGED <<db, in_bin_dir, in_base>>
    /\ UNCHANGED <<rdVars, prVars, etVars, pkVars, pcVars, rtVars>>

\* line 93: comp.PythonInstallComponent.post_install(self)
PostInstallBase ==
    /\ in_pc = "post_install"
    /\ \E ok \in BOOLEAN :
          LET call == [call |-> "post_install", ok |-> ok]
          IN  IF ok THEN StepReturns(call) ELSE StepRaises(call)
    /\ UNCHANGED <<db, in_bin_dir, in_base, in_runs, in_params>>
    /\ UNCHANGED <<rdVars, prVars, etVars, pkVars, pcVars, rtVars>>

\* line 118: dbhelper.drop_db(self.cfg, self.distro, DB_NAME)
SetupDbDrop ==
    /\ in_pc = "drop_db"
    /\ \E ok \in BOOLEAN :
          LET call == [call |-> "drop_db", name |-> DB_NAME, ok |-> ok]
          IN  IF ok THEN StepReturns(call) /\ db' = NoDb
              ELSE StepRaises(call) /\ UNCHANGED db
    /\ UNCHANGED <<in_bin_dir, in_base, in_runs, in_params>>
    /\ UNCHANGED <<rdVars, prVars, etVars, pkVars, pcVars, rtVars>>

\* line 119: dbhelper.create_db(self.cfg, self.distro, DB_NAME, utf8=True)
SetupDbCreate ==
    /\ in_pc = "create_db"
    /\ \E ok \in BOOLEAN :
          LET call == [call |-> "create_db", name |-> DB_NAME, utf8 |-> TRUE,
                       ok |-> ok]
          IN  IF ok THEN StepReturns(call) /\ db' = CreatedDb(call.utf8, in_runs)
              ELSE StepRaises(call) /\ UNCHANGED db
    /\ UNCHANGED <<in_bin_dir, in_base, in_runs, in_params>>
    /\ UNCHANGED <<rdVars, prVars, etVars, pkVars, pcVars, rtVars>>

\* line 100, the argument params=self.config_params(None) (lines 174-179)
SyncDbParams ==
    /\ in_pc = "config_params"
    /\ \E ok \in BOOLEAN :
          LET call == [call |-> "config_params", ok |-> ok]
          IN  IF ok
              THEN /\ StepReturns(call)
                   /\ in_params' = config_params(in_base, in_bin_dir, "/etc/keystone")
              ELSE StepRaises(call) /\ UNCHANGED in_params
    /\ UNCHANGED <<db, in_bin_dir, in_base, in_runs>>
    /\ UNCHANGED <<rdVars, prVars, etVars, pkVars, pcVars, rtVars>>

\* lines 98-100: utils.execute_template(*cmds, cwd=self.bin_dir, params=...);
\* a failed sync may have changed part of the schema
SyncDbExecute ==
    /\ in_pc = "execute_template"
    /\ \E ok \in BOOLEAN :
          LET call == [call |-> "execute_template", cmds |-> SyncCmds,
                       cwd |-> in_bin_dir, params |-> in_params,
                       against |-> db, ok |-> ok]
          IN  IF ok
              THEN /\ StepReturns(call)
                   /\ db' = IF db.exists THEN [db EXCEPT !.schema = "synced"]
                            ELSE db
              ELSE /\ StepRaises(call)
                   /\ \E s \in {db.schema, "partial"} :
                         db' = IF db.exists THEN [db EXCEPT !.schema = s] ELSE db
    /\ UNCHANGED <<in_bin_dir, in_base, in_runs, in_params>>
    /\ UNCHANGED <<rdVars, prVars, etVars, pkVars, pcVars, rtVars>>

NextInstall ==
    \/ PostInstallBegin
    \/ PostInstallBase
    \/ SetupDbDrop
    \/ SetupDbCreate
    \/ SyncDbParams
    \/ SyncDbExecute

SpecInstall == InitInstall /\ [][NextInstall]_vars

\* the boundary calls of a complete post_install, in the order claimed
InstallOrder ==
    <<"post_install", "drop_db", "create_db", "config_params",
      "execute_template">>

CallNames(log) == [i \in 1..Len(log) |-> log[i].call]

\* C5: the calls of one post_install are a prefix of: base post_install, drop
\* 'keystone', create 'keystone' with utf8, (parameters), db_sync as root; each
\* was made only after all earlier ones succeeded; a failed call is the last
\* one and the failure leaves post_install; the sync command runs only against
\* the database this same run dropped and created.
InstallInOrder ==
    /\ IsPrefix(CallNames(in_log), InstallOrder)
    /\ \A i \in 1..Len(in_log) :
          /\ i < Len(in_log) => in_log[i].ok
          /\ in_log[i].call \in {"drop_db", "create_db"} =>
                in_log[i].name = "keystone"
          /\ in_log[i].call = "create_db" => in_log[i].utf8
          /\ in_log[i].call = "execute_template" =>
                /\ Len(in_log[i].cmds) = 1
                /\ in_log[i].cmds[1].run_as_root
                /\ in_log[i].cmds[1].cmd[Len(in_log[i].cmds[1].cmd)] = "db_sync"
                /\ in_log[i].against = CreatedDb(TRUE, in_runs)
    /\ in_log # <<>> /\ ~in_log[Len(in_log)].ok => in_pc = "raised"
    /\ in_pc = "raised" => in_log # <<>> /\ ~in_log[Len(in_log)].ok
    /\ in_pc = "done" =>
          /\ Len(in_log) = Len(InstallOrder)
          /\ in_log[Len(in_log)].ok
          /\ db = [CreatedDb(TRUE, in_runs) EXCEPT !.schema = "synced"]

\* C5 witness: a second run, after a first that died in create_db, got
\* through all steps and synced the database it re-created itself.
InstallInOrderWitness ==
    /\ in_runs = 2
    /\ in_pc = "done"
    /\ Len(in_log) = 5
    /\ in_log[5].call = "execute_template" /\ in_log[5].ok
    /\ in_log[5].against.made_by = 2
    /\ db.schema = "synced"

\* C11 as stated: when two hooks run against the same marker path, both find
\* the marker absent with the option enabled, the second passing the check
\* while the first is still inside the initialization, and no boundary call of
\* either fails, the initializer is invoked twice: once by each of them.
InitializerInvokedTwice ==
    \A p, q \in Procs :
        /\ p # q
        /\ rt_starts[p] = 1 /\ rt_starts[q] = 1
        /\ ~rt_entry[p].existed /\ rt_entry[p].do_init
        /\ ~rt_entry[q].existed /\ rt_entry[q].do_init
        /\ p \in rt_entry[q].alongside
        /\ rt_pc[p] \in {"returned", "raised"} /\ ~rt_failed[p]
        /\ rt_pc[q] \in {"returned", "raised"} /\ ~rt_failed[q]
        => /\ "initialize" \in Range(rt_trace[p])
           /\ "initialize" \in Range(rt_trace[q])

=============================================================================
